---- MODULE Spec2Model ----
(***************************************************************************)
(* A model of the SBI day-trade result analyser: app.py (ingestion of an   *)
(* uploaded CSV export) and stock_trade_visualizer.py (show_summary: the   *)
(* daily / monthly aggregation, the two scalar ratios and the cumulative   *)
(* P&L series).                                                            *)
(*                                                                         *)
(* Text is modelled character by character: a cell is a tuple of           *)
(* characters, a line is a tuple of cells (the fields between commas) and  *)
(* a file is a tuple of lines.  TLA+ strings are ASCII, so every Japanese  *)
(* character is written by its reading: "yaku","jo","bi" is 約定日,        *)
(* "shin","yo" is 信用, "gen","butsu" is 現物, "tori","hiki" is 取引 and   *)
(* "son","eki" stands for the column 受渡金額/決済損益.                    *)
(*                                                                         *)
(* Floating point values are kept exact: a float is a reduced fraction    *)
(* <<num, den>> with den > 0, and NaN (NaT for a date, a missing cell) is  *)
(* the empty tuple.  An optional value (Python's None) is a set of at most *)
(* one element.                                                            *)
(***************************************************************************)
EXTENDS Integers, Sequences, FiniteSets, TLC

VARIABLES
    pc,                \* position of the script run of app.py
    uploaded_file,     \* app.py:25  None, or the uploaded content
    enc_idx,           \* app.py:31  index of the encoding being tried
    lines,             \* app.py:33  decoded lines, None before a decode succeeded
    header_row_index,  \* app.py:42  0-based index of the header line, or None
    df,                \* app.py:53  the parsed table, or None
    st_error,          \* app.py:38,49  the error shown, or None
    daily,             \* stock_trade_visualizer.py:37,113
    monthly,           \* stock_trade_visualizer.py:48
    metrics,           \* stock_trade_visualizer.py:102,104  the two st.metric texts
    shown              \* the widgets rendered so far, in order

vars == <<pc, uploaded_file, enc_idx, lines, header_row_index, df, st_error,
          daily, monthly, metrics, shown>>

\* Python's None, and a value that is present.
None == {}
Some(x) == {x}
The(o) == CHOOSE x \in o : TRUE

\* pandas' missing value: NaN for numbers and text, NaT for dates.
NaN == <<>>

-----------------------------------------------------------------------------
(* Bounds of the model.                                                    *)

\* Longest file (in lines) among the uploads that exercise ingestion.
MaxLines == 3
\* Most data rows under the header among the uploads that exercise show_summary.
MaxRows == 3

-----------------------------------------------------------------------------
(* Numbers.                                                                *)

Abs(n) == IF n < 0 THEN 0 - n ELSE n

RECURSIVE GCD(_, _)
GCD(a, b) == IF b = 0 THEN a ELSE GCD(b, a % b)

\* The float n / d (d # 0), as a reduced fraction with a positive denominator.
Rat(n, d) ==
    LET g == GCD(Abs(n), Abs(d))
        s == IF d < 0 THEN 0 - 1 ELSE 1
    IN <<(s * n) \div g, Abs(d) \div g>>

Num(x) == x[1]
Den(x) == x[2]
IsNaN(x) == x = NaN
RatLess(x, y) == Num(x) * Den(y) < Num(y) * Den(x)
RatAdd(x, y) == Rat(Num(x) * Den(y) + Num(y) * Den(x), Den(x) * Den(y))
\* Float division: NaN when either side is NaN.  The divisor is never zero where
\* the program divides.
RatDiv(x, y) ==
    IF IsNaN(x) \/ IsNaN(y) THEN NaN ELSE Rat(Num(x) * Den(y), Den(x) * Num(y))
\* abs() of a float; abs(nan) is nan.
RatAbs(x) == IF IsNaN(x) THEN NaN ELSE <<Abs(Num(x)), Den(x)>>

\* Python's truth value of a float: only zero is false, NaN is true.
Truthy(x) == IF IsNaN(x) THEN TRUE ELSE Num(x) # 0

\* f"{x:.2f}": the nearest hundredth, a tie going to the even one (every tie the
\* model's inputs produce is a binary fraction, exact as a float); nan reads "nan".
Format2f(x) ==
    IF IsNaN(x) THEN "nan"
    ELSE LET n == 100 * Abs(Num(x))
             q == n \div Den(x)
             r == n % Den(x)
             c == IF 2 * r > Den(x) \/ (2 * r = Den(x) /\ q % 2 = 1) THEN q + 1 ELSE q
             frac == c % 100
         IN (IF Num(x) < 0 /\ c > 0 THEN "-" ELSE "")
            \o ToString(c \div 100) \o "."
            \o (IF frac < 10 THEN "0" ELSE "") \o ToString(frac)

-----------------------------------------------------------------------------
(* Text.                                                                   *)

Encodings == <<"utf-8", "cp932", "shift_jis">>

\* "約定日"
MARKER == <<"yaku", "jo", "bi">>
\* "信用"
SHINYO == <<"shin", "yo">>
\* the columns show_summary reads: "取引", "約定日", "受渡金額/決済損益"
COL_TORIHIKI == <<"tori", "hiki">>
COL_YAKUJOBI == <<"yaku", "jo", "bi">>
COL_SONEKI == <<"son", "eki">>
\* "計算不可"
KEISAN_FUKA == "keisan-fuka"

\* Python's `sub in s` on text.
Contains(s, sub) ==
    \E i \in 0..(Len(s) - Len(sub)) : \A j \in 1..Len(sub) : s[i + j] = sub[j]

\* `sub in line` for a line of comma-separated cells, sub holding no comma.
LineContains(line, sub) == \E c \in 1..Len(line) : Contains(line[c], sub)

Digits == <<"0", "1", "2", "3", "4", "5", "6", "7", "8", "9">>
IsDigit(ch) == \E d \in 1..10 : Digits[d] = ch
DigitVal(ch) == (CHOOSE d \in 1..10 : Digits[d] = ch) - 1

RECURSIVE ParseDigits(_)
\* The value of a run of decimal digits; -1 for an empty run or another character.
ParseDigits(s) ==
    IF Len(s) = 0 \/ \E i \in 1..Len(s) : ~IsDigit(s[i]) THEN 0 - 1
    ELSE IF Len(s) = 1 THEN DigitVal(s[1])
    ELSE 10 * ParseDigits(SubSeq(s, 1, Len(s) - 1)) + DigitVal(s[Len(s)])

\* One cell through pd.to_numeric(..., errors="coerce"): an integer with an
\* optional minus sign becomes that number, anything else (a missing cell too) NaN.
to_numeric(cell) ==
    LET neg == Len(cell) > 0 /\ cell[1] = "-"
        v == ParseDigits(IF neg THEN Tail(cell) ELSE cell)
    IN IF v < 0 THEN NaN ELSE IF neg THEN <<0 - v, 1>> ELSE <<v, 1>>

IsLeap(y) == (y % 4 = 0 /\ y % 100 # 0) \/ y % 400 = 0
DaysIn(y, m) ==
    IF m = 2 THEN (IF IsLeap(y) THEN 29 ELSE 28)
    ELSE IF m \in {4, 6, 9, 11} THEN 30 ELSE 31

\* One cell through pd.to_datetime(..., errors="coerce"): a cell written
\* year/month/day that names a calendar date becomes <<y, m, d>>, anything else
\* (a missing cell too) NaT.
to_datetime(cell) ==
    LET slashes == {i \in 1..Len(cell) : cell[i] = "/"} IN
    IF Cardinality(slashes) # 2 THEN NaN
    ELSE LET a == CHOOSE i \in slashes : \A j \in slashes : i <= j
             b == CHOOSE i \in slashes : \A j \in slashes : j <= i
             y == ParseDigits(SubSeq(cell, 1, a - 1))
             m == ParseDigits(SubSeq(cell, a + 1, b - 1))
             d == ParseDigits(SubSeq(cell, b + 1, Len(cell)))
         IN IF y < 1 \/ m < 1 \/ m > 12 \/ d < 1 THEN NaN
            ELSE IF d > DaysIn(y, m) THEN NaN
            ELSE <<y, m, d>>

\* Series.astype(str) on one cell of an object column: a missing cell reads "nan".
astype_str(cell) == IF cell = NaN THEN <<"n", "a", "n">> ELSE cell

\* Series.str.contains("信用", na=False) after astype(str), on one cell.
IsShinyo(cell) == Contains(astype_str(cell), SHINYO)

-----------------------------------------------------------------------------
(* stock_trade_visualizer.py: show_summary.                                *)

\* The position of column `name` in the table, 0 when there is none (KeyError).
ColumnIndex(d, name) ==
    IF \E i \in 1..Len(d.columns) : d.columns[i] = name
    THEN CHOOSE i \in 1..Len(d.columns) : d.columns[i] = name
    ELSE 0

\* Line 22 with na=True: a row without a label would stay.
KeepRow_na_true(cell) == cell = NaN \/ IsShinyo(cell)

\* Line 22: whether the row of label `cell` stays in the table.
KeepRow(cell) == IsShinyo(cell)

\* Lines 22-34: the rows kept by the 取引 filter, each with its coerced and
\* derived columns.
Derive(d) ==
    LET ti == ColumnIndex(d, COL_TORIHIKI)
        yi == ColumnIndex(d, COL_YAKUJOBI)
        si == ColumnIndex(d, COL_SONEKI)
        kept == SelectSeq(d.rows, LAMBDA r : KeepRow(r[ti]))
    IN [i \in 1..Len(kept) |->
          LET y == to_datetime(kept[i][yi])
              s == to_numeric(kept[i][si])
              win == (~IsNaN(s)) /\ Num(s) > 0
              loss == (~IsNaN(s)) /\ Num(s) < 0
          IN [yakujobi |-> y,
              soneki |-> s,
              nengetsu |-> IF IsNaN(y) THEN NaN ELSE <<y[1], y[2]>>,
              hizuke |-> y,
              kachi |-> win,
              make |-> loss,
              kachi_soneki_nomi |-> IF win THEN s ELSE NaN,
              make_soneki_nomi |-> IF loss THEN s ELSE NaN]]

\* A column of a table, as a sequence.
Column(rows, name) == [i \in 1..Len(rows) |-> rows[i][name]]
NotNa(v) == SelectSeq(v, LAMBDA x : ~IsNaN(x))

RECURSIVE SumSeq(_)
SumSeq(v) == IF Len(v) = 0 THEN <<0, 1>> ELSE RatAdd(v[1], SumSeq(Tail(v)))

RECURSIVE MinSeq(_)
MinSeq(v) ==
    IF Len(v) = 1 THEN v[1]
    ELSE LET m == MinSeq(Tail(v)) IN IF RatLess(m, v[1]) THEN m ELSE v[1]

\* pandas "sum": missing values are skipped, an empty sum is 0.
agg_sum(v) == SumSeq(NotNa(v))
\* pandas "min": missing values are skipped, NaN when nothing is left.
agg_min(v) == IF Len(NotNa(v)) = 0 THEN NaN ELSE MinSeq(NotNa(v))
\* pandas "mean": missing values are skipped, NaN when nothing is left.
agg_mean(v) ==
    IF Len(NotNa(v)) = 0 THEN NaN
    ELSE RatDiv(SumSeq(NotNa(v)), <<Len(NotNa(v)), 1>>)
\* "sum" of a boolean column: the number of True.
agg_sum_bool(b) == Len(SelectSeq(b, LAMBDA x : x))
\* "count" of the 勝ち column: its non-null cells, and a boolean is never null.
agg_count(b) == Len(b)
\* The win rate with an integer division: (x.sum() // len(x)) * 100
agg_shoritsu_floordiv(b) == <<100 * (agg_sum_bool(b) \div Len(b)), 1>>

\* lambda x: (x.sum() / len(x)) * 100
agg_shoritsu(b) == Rat(100 * agg_sum_bool(b), Len(b))

\* The aggregates with 総損益 summed over the wrong column, 勝ち損益のみ.
Aggregate_wrong_column(g) ==
    [kachi_su |-> agg_sum_bool(Column(g, "kachi")),
     so_torihiki_su |-> agg_count(Column(g, "kachi")),
     so_soneki |-> agg_sum(Column(g, "kachi_soneki_nomi")),
     shoritsu |-> agg_shoritsu(Column(g, "kachi")),
     saidai_sonshitsu |-> agg_min(Column(g, "soneki")),
     heikin_rieki |-> agg_mean(Column(g, "kachi_soneki_nomi")),
     heikin_sonshitsu |-> agg_mean(Column(g, "make_soneki_nomi")),
     heikin_soneki |-> agg_mean(Column(g, "soneki"))]

\* Lines 38-45 (and 49-56): the aggregates of one group.
Aggregate(g) ==
    [kachi_su |-> agg_sum_bool(Column(g, "kachi")),
     so_torihiki_su |-> agg_count(Column(g, "kachi")),
     so_soneki |-> agg_sum(Column(g, "soneki")),
     shoritsu |-> agg_shoritsu(Column(g, "kachi")),
     saidai_sonshitsu |-> agg_min(Column(g, "soneki")),
     heikin_rieki |-> agg_mean(Column(g, "kachi_soneki_nomi")),
     heikin_sonshitsu |-> agg_mean(Column(g, "make_soneki_nomi")),
     heikin_soneki |-> agg_mean(Column(g, "soneki"))]

\* The order of dates (y, m, d) and of months (y, m).
KeyLess(a, b) ==
    \E i \in 1..Len(a) : a[i] < b[i] /\ \A j \in 1..(i - 1) : a[j] = b[j]

RECURSIVE SortedKeys(_)
SortedKeys(S) ==
    IF S = {} THEN <<>>
    ELSE LET m == CHOOSE x \in S : \A y \in S : x = y \/ KeyLess(x, y)
         IN <<m>> \o SortedKeys(S \ {m})

\* df.groupby(key): the distinct keys in ascending order, rows of a missing key
\* dropped.
GroupKeys(rows, name) ==
    SortedKeys({rows[i][name] : i \in 1..Len(rows)} \ {NaN})

\* The daily table grouped by 年月 where 日付 was meant.
GroupByHizuke_by_month(rows) ==
    LET keys == GroupKeys(rows, "nengetsu")
    IN [k \in 1..Len(keys) |->
          ("hizuke" :> keys[k])
          @@ Aggregate(SelectSeq(rows, LAMBDA r : r.nengetsu = keys[k]))]

\* Lines 37-46: df.groupby("日付").agg(...).reset_index()
GroupByHizuke(rows) ==
    LET keys == GroupKeys(rows, "hizuke")
    IN [k \in 1..Len(keys) |->
          ("hizuke" :> keys[k])
          @@ Aggregate(SelectSeq(rows, LAMBDA r : r.hizuke = keys[k]))]

\* Lines 48-57: df.groupby("年月").agg(...).reset_index()
GroupByNengetsu(rows) ==
    LET keys == GroupKeys(rows, "nengetsu")
    IN [k \in 1..Len(keys) |->
          ("nengetsu" :> keys[k])
          @@ Aggregate(SelectSeq(rows, LAMBDA r : r.nengetsu = keys[k]))]

\* The cumulative column without the cumsum(): a copy of 総損益.
cumsum_copy(d) ==
    [i \in 1..Len(d) |-> ("ruiseki_soneki" :> d[i].so_soneki) @@ d[i]]

\* Lines 110, 113: daily["累積損益"] = daily["総損益"].cumsum()
cumsum(d) ==
    [i \in 1..Len(d) |->
        ("ruiseki_soneki" :> SumSeq([j \in 1..i |-> d[j].so_soneki])) @@ d[i]]

\* Lines 91-94.
avg_profit(rows) ==
    agg_mean(Column(SelectSeq(rows, LAMBDA r : r.kachi), "soneki"))
avg_loss(rows) ==
    agg_mean(Column(SelectSeq(rows, LAMBDA r : r.make), "soneki"))
total_profit(rows) ==
    agg_sum(Column(SelectSeq(rows, LAMBDA r : r.kachi), "soneki"))
total_loss(rows) ==
    agg_sum(Column(SelectSeq(rows, LAMBDA r : r.make), "soneki"))

\* Line 96: avg_profit / abs(avg_loss) if avg_loss else None
payoff_ratio(rows) ==
    IF Truthy(avg_loss(rows))
    THEN Some(RatDiv(avg_profit(rows), RatAbs(avg_loss(rows))))
    ELSE None

\* Line 97: total_profit / abs(total_loss) if total_loss else None
profit_factor(rows) ==
    IF Truthy(total_loss(rows))
    THEN Some(RatDiv(total_profit(rows), RatAbs(total_loss(rows))))
    ELSE None

\* Lines 102, 104: f"{x:.2f}" if x else "計算不可"
MetricText(x) ==
    IF x # None /\ Truthy(The(x)) THEN Format2f(The(x)) ELSE KEISAN_FUKA

\* Whether show_summary finds the three columns it reads (lines 22, 25, 26).
HasColumns(d) ==
    /\ ColumnIndex(d, COL_TORIHIKI) # 0
    /\ ColumnIndex(d, COL_YAKUJOBI) # 0
    /\ ColumnIndex(d, COL_SONEKI) # 0

\* What show_summary(d) computes and renders.
show_summary(d) ==
    LET rows == Derive(d)
    IN [daily |-> cumsum(GroupByHizuke(rows)),
        monthly |-> GroupByNengetsu(rows),
        metrics |-> [payoff_ratio |-> MetricText(payoff_ratio(rows)),
                     profit_factor |-> MetricText(profit_factor(rows))]]

-----------------------------------------------------------------------------
(* The uploads the model runs the script on.  Every line has the three     *)
(* fields 約定日, 取引, 受渡金額/決済損益 (ragged lines are the business   *)
(* of read_csv's tokenizer), dates are written year/month/day and amounts  *)
(* are whole yen.                                                          *)

DATE_0101 == <<"2", "0", "2", "5", "/", "0", "1", "/", "0", "1">>
DATE_0102 == <<"2", "0", "2", "5", "/", "0", "1", "/", "0", "2">>
DATE_0201 == <<"2", "0", "2", "5", "/", "0", "2", "/", "0", "1">>
\* no such day: to_datetime coerces it to NaT
DATE_0230 == <<"2", "0", "2", "5", "/", "0", "2", "/", "3", "0">>

YEN_1000 == <<"1", "0", "0", "0">>
YEN_300 == <<"3", "0", "0">>
YEN_0 == <<"0">>
YEN_M400 == <<"-", "4", "0", "0">>
\* "--", the export's blank amount: to_numeric coerces it to NaN
YEN_NONE == <<"-", "-">>

\* "信用返済売", "現物", and an empty field
LABEL_SHINYO == <<"shin", "yo", "hen", "sai", "uri">>
LABEL_GENBUTSU == <<"gen", "butsu">>
LABEL_EMPTY == <<>>

\* the header line of the export
HEADER == <<COL_YAKUJOBI, COL_TORIHIKI, COL_SONEKI>>
\* a preamble line without the marker: "口座,,"
PREAMBLE == <<<<"kou", "za">>, <<>>, <<>>>>
\* a line that holds the marker and is not the header: "約定日別,2025/01/01,2025/01/02"
TITLE == <<<<"yaku", "jo", "bi", "betsu">>, DATE_0101, DATE_0102>>

\* The trade rows of the uploads that exercise show_summary.
TradeRows ==
    {<<d, LABEL_SHINYO, y>> : d \in {DATE_0101, DATE_0102}, y \in {YEN_1000, YEN_M400, YEN_300}}
    \cup {<<DATE_0201, LABEL_SHINYO, YEN_M400>>,
          <<DATE_0101, LABEL_SHINYO, YEN_0>>,
          <<DATE_0101, LABEL_SHINYO, YEN_NONE>>,
          <<DATE_0230, LABEL_SHINYO, YEN_300>>,
          <<DATE_0101, LABEL_GENBUTSU, YEN_1000>>,
          <<DATE_0102, LABEL_EMPTY, YEN_M400>>}

\* The lines of the uploads that exercise ingestion.
IngestLines ==
    {PREAMBLE, TITLE, HEADER,
     <<DATE_0101, LABEL_SHINYO, YEN_1000>>,
     <<DATE_0102, LABEL_SHINYO, YEN_M400>>}

\* All sequences over S of length at most n.
SeqUpTo(S, n) == UNION {[1..k -> S] : k \in 0..n}

\* The encodings of app.py line 31, as a set.
EncodingSet == {Encodings[i] : i \in 1..Len(Encodings)}

\* An upload is the text of the file and the encodings under which its bytes
\* decode without UnicodeDecodeError.
Uploads ==
    [valid : SUBSET EncodingSet, text : SeqUpTo(IngestLines, MaxLines)]
    \cup [valid : {{"utf-8"}},
          text : {<<HEADER>> \o r : r \in SeqUpTo(TradeRows, MaxRows)}]

-----------------------------------------------------------------------------
(* app.py: one run of the script.                                          *)

\* content.decode(enc).splitlines(): None stands for UnicodeDecodeError.
decode(content, enc) ==
    IF enc \in content.valid THEN Some(content.text) ELSE None

\* Lines 42-46 without the break: the last line holding the marker.
FindHeaderRow_last(ls) ==
    LET hits == {i \in 1..Len(ls) : LineContains(ls[i], MARKER)}
    IN IF hits = {} THEN None
       ELSE Some((CHOOSE i \in hits : \A j \in hits : j <= i) - 1)

\* Lines 42-46: the index (from 0) of the first line holding the marker, or None.
FindHeaderRow(ls) ==
    LET hits == {i \in 1..Len(ls) : LineContains(ls[i], MARKER)}
    IN IF hits = {} THEN None
       ELSE Some((CHOOSE i \in hits : \A j \in hits : i <= j) - 1)

\* Line 53: pd.read_csv(io.StringIO("\n".join(lines)), skiprows=h): the first
\* line left after the skipped ones names the columns, the rest are the rows; an
\* empty field is a missing value.  skiprows=None skips nothing.
read_csv(ls, h) ==
    LET skiprows == IF h = None THEN 0 ELSE The(h)
        body == SubSeq(ls, skiprows + 1, Len(ls))
    IN [columns |-> body[1],
        rows |-> [i \in 1..(Len(body) - 1) |->
                     [c \in 1..Len(body[i + 1]) |->
                         IF body[i + 1][c] = <<>> THEN NaN ELSE body[i + 1][c]]]]

NoReport == [payoff_ratio |-> "", profit_factor |-> ""]

Init ==
    /\ pc = "start"
    /\ uploaded_file \in {None} \cup {Some(u) : u \in Uploads}
    /\ enc_idx = 1
    /\ lines = None
    /\ header_row_index = None
    /\ df = None
    /\ st_error = ""
    /\ daily = <<>>
    /\ monthly = <<>>
    /\ metrics = NoReport
    /\ shown = <<>>

\* Line 27 with no file uploaded: the run ends.
NoUpload ==
    /\ pc = "start"
    /\ uploaded_file = None
    /\ pc' = "done"
    /\ UNCHANGED <<uploaded_file, enc_idx, lines, header_row_index, df, st_error,
                   daily, monthly, metrics, shown>>

\* Lines 27-28: content = uploaded_file.read()
ReadUpload ==
    /\ pc = "start"
    /\ uploaded_file # None
    /\ pc' = "decode"
    /\ UNCHANGED <<uploaded_file, enc_idx, lines, header_row_index, df, st_error,
                   daily, monthly, metrics, shown>>

\* Lines 31-36: one pass of the loop over the encodings.
TryDecode ==
    /\ pc = "decode"
    /\ enc_idx <= Len(Encodings)
    /\ LET got == decode(The(uploaded_file), Encodings[enc_idx])
       IN IF got # None
          THEN /\ lines' = got
               /\ pc' = "find_header"
               /\ UNCHANGED enc_idx
          ELSE /\ enc_idx' = enc_idx + 1
               /\ UNCHANGED <<lines, pc>>
    /\ UNCHANGED <<uploaded_file, header_row_index, df, st_error,
                   daily, monthly, metrics, shown>>

\* Line 39: st.stop() ends the run.
stop_no_encoding == "stopped"

\* Line 50 left out: the run goes on to read_csv.
stop_no_header_missing == "read_csv"

\* Line 50: st.stop() ends the run.
stop_no_header == "stopped"

\* Lines 37-39: the loop's else branch.
DecodeFailed ==
    /\ pc = "decode"
    /\ enc_idx > Len(Encodings)
    /\ st_error' = "encoding"
    /\ shown' = Append(shown, "error")
    /\ pc' = stop_no_encoding
    /\ UNCHANGED <<uploaded_file, enc_idx, lines, header_row_index, df,
                   daily, monthly, metrics>>

\* Lines 42-50: the header is looked for; without one the run stops on an error.
FindHeader ==
    /\ pc = "find_header"
    /\ header_row_index' = FindHeaderRow(The(lines))
    /\ IF header_row_index' = None
       THEN /\ st_error' = "header"
            /\ shown' = Append(shown, "error")
            /\ pc' = stop_no_header
       ELSE /\ pc' = "read_csv"
            /\ UNCHANGED <<st_error, shown>>
    /\ UNCHANGED <<uploaded_file, enc_idx, lines, df, daily, monthly, metrics>>

\* Lines 53-54.
ReadCsv ==
    /\ pc = "read_csv"
    /\ df' = Some(read_csv(The(lines), header_row_index))
    /\ shown' = Append(shown, "success")
    /\ pc' = "show_summary"
    /\ UNCHANGED <<uploaded_file, enc_idx, lines, header_row_index, st_error,
                   daily, monthly, metrics>>

\* Line 56: show_summary(df), which raises KeyError before it renders anything
\* when a column it reads is not in the table.
ShowSummary ==
    /\ pc = "show_summary"
    /\ IF HasColumns(The(df))
       THEN LET r == show_summary(The(df))
            IN /\ daily' = r.daily
               /\ monthly' = r.monthly
               /\ metrics' = r.metrics
               /\ shown' = shown \o <<"daily", "monthly", "metrics", "chart">>
               /\ pc' = "csv_data"
       ELSE /\ pc' = "KeyError"
            /\ UNCHANGED <<daily, monthly, metrics, shown>>
    /\ UNCHANGED <<uploaded_file, enc_idx, lines, header_row_index, df, st_error>>

\* Lines 57-58: the raw table.
ShowCsvData ==
    /\ pc = "csv_data"
    /\ shown' = Append(shown, "csv_data")
    /\ pc' = "done"
    /\ UNCHANGED <<uploaded_file, enc_idx, lines, header_row_index, df, st_error,
                   daily, monthly, metrics>>

Next ==
    \/ NoUpload
    \/ ReadUpload
    \/ TryDecode
    \/ DecodeFailed
    \/ FindHeader
    \/ ReadCsv
    \/ ShowSummary
    \/ ShowCsvData

Spec == Init /\ [][Next]_vars

-----------------------------------------------------------------------------
(* The vocabulary of the properties: the uploaded table read directly,     *)
(* row by row, without the grouping code of show_summary.                  *)

\* show_summary has returned its report.
SummaryShown == pc = "csv_data"

\* The label holds 信 directly followed by 用.
HasMarginMarker(cell) ==
    \E i \in 1..(Len(cell) - 1) : cell[i] = "shin" /\ cell[i + 1] = "yo"

\* The rows of table d as trades: whether the label marks a margin trade, the
\* date (NaT when it does not parse) and the amount (NaN when it is not a number).
Trades(d) ==
    [i \in 1..Len(d.rows) |->
        [margin |-> HasMarginMarker(d.rows[i][ColumnIndex(d, COL_TORIHIKI)]),
         label |-> d.rows[i][ColumnIndex(d, COL_TORIHIKI)],
         day |-> to_datetime(d.rows[i][ColumnIndex(d, COL_YAKUJOBI)]),
         amount |-> to_numeric(d.rows[i][ColumnIndex(d, COL_SONEKI)])]]

\* Of the trades t, by index: the margin trades, and what is known of each.
MarginRows(t) == {i \in 1..Len(t) : t[i].margin}
HasAmount(t, i) == ~IsNaN(t[i].amount)
HasDay(t, i) == ~IsNaN(t[i].day)
Yen(t, i) == IF HasAmount(t, i) THEN Num(t[i].amount) ELSE 0
Winners(t) == {i \in MarginRows(t) : Yen(t, i) > 0}
Losers(t) == {i \in MarginRows(t) : Yen(t, i) < 0}

RECURSIVE YenTotal(_, _)
\* The sum of the amounts of the trades I, a missing amount counting 0.
YenTotal(t, I) ==
    IF I = {} THEN 0
    ELSE LET i == CHOOSE x \in I : TRUE IN Yen(t, i) + YenTotal(t, I \ {i})

\* The mean amount of the trades I: NaN when there is none.
YenMean(t, I) == IF I = {} THEN NaN ELSE Rat(YenTotal(t, I), Cardinality(I))

\* The margin trades dated `day`, and those of the month `month`.
OnDay(t, day) == {i \in MarginRows(t) : t[i].day = day}
InMonth(t, month) ==
    {i \in MarginRows(t) : HasDay(t, i) /\ <<t[i].day[1], t[i].day[2]>> = month}

RECURSIVE TableTotal(_)
\* The sum of 総損益 over the rows of a summary table, in yen.
TableTotal(s) ==
    IF Len(s) = 0 THEN 0 ELSE Num(s[1].so_soneki) + TableTotal(Tail(s))

\* Table d without the rows I.
Without(d, I) ==
    [columns |-> d.columns,
     rows |-> LET keep == SortedKeys({<<i>> : i \in (1..Len(d.rows)) \ I})
              IN [k \in 1..Len(keep) |-> d.rows[keep[k][1]]]]

-----------------------------------------------------------------------------
(* The properties.                                                         *)

\* C1: whenever the report is shown for a table that has margin trades and no
\* losing one among them, the payoff ratio and the profit factor both read 計算不可.
C1_NoLoserNotComputable ==
    SummaryShown =>
        LET t == Trades(The(df))
        IN (MarginRows(t) # {} /\ Losers(t) = {}) =>
              /\ metrics.payoff_ratio = KEISAN_FUKA
              /\ metrics.profit_factor = KEISAN_FUKA

\* C2: the daily and the monthly table are what they would be without the margin
\* rows whose amount is non-numeric or whose date is unparsable: such a row
\* changes no count, rate, total, minimum or average of any summary row.
C2_CoercedRowsExcluded ==
    SummaryShown =>
        LET t == Trades(The(df))
            bad == {i \in MarginRows(t) : ~HasAmount(t, i) \/ ~HasDay(t, i)}
            r == show_summary(Without(The(df), bad))
        IN daily = r.daily /\ monthly = r.monthly

\* The part of C2 the program keeps: a margin row whose date is unparsable changes
\* nothing in the daily and the monthly table.
Aux_UndatedRowsExcluded ==
    SummaryShown =>
        LET t == Trades(The(df))
            r == show_summary(Without(The(df), {i \in MarginRows(t) : ~HasDay(t, i)}))
        IN daily = r.daily /\ monthly = r.monthly

\* C3 as claimed: the daily totals and the monthly totals both sum to the total
\* of the margin rows whose amount is not missing.
C3_TotalsOverRowsWithAmount ==
    SummaryShown =>
        LET t == Trades(The(df))
            all == YenTotal(t, {i \in MarginRows(t) : HasAmount(t, i)})
        IN TableTotal(daily) = TableTotal(monthly) /\ TableTotal(daily) = all

\* C3 as the program has it: the daily totals and the monthly totals both sum to
\* the total of the margin rows whose amount is not missing and whose date parses.
C3_TotalsOverDatedRows ==
    SummaryShown =>
        LET t == Trades(The(df))
            dated == YenTotal(t, {i \in MarginRows(t) : HasAmount(t, i) /\ HasDay(t, i)})
        IN TableTotal(daily) = TableTotal(monthly) /\ TableTotal(daily) = dated

\* C3's case: a report over several days and months, with an amount on a row
\* whose date does not parse.
C3_Witness ==
    /\ SummaryShown
    /\ Len(daily) >= 2
    /\ Len(monthly) >= 2
    /\ LET t == Trades(The(df))
       IN \E i \in MarginRows(t) : HasAmount(t, i) /\ ~HasDay(t, i)

\* Summary row r is right about the win rate, for the trades I it stands for.
WinRateRow(t, r, I) ==
    /\ r.so_torihiki_su >= 1
    /\ r.shoritsu = Rat(100 * r.kachi_su, r.so_torihiki_su)
    /\ ~RatLess(r.shoritsu, <<0, 1>>)
    /\ ~RatLess(<<100, 1>>, r.shoritsu)
    /\ r.so_torihiki_su = Cardinality(I)
    /\ r.kachi_su = Cardinality(I \cap Winners(t))
    /\ r.heikin_rieki = YenMean(t, I \cap Winners(t))
    /\ r.heikin_sonshitsu = YenMean(t, I \cap Losers(t))

\* C4: in every daily and monthly row the win rate is wins / total trades x 100
\* and lies in 0..100; the total counts every trade of the group, a zero amount
\* included, while wins and the average win take only amounts > 0 and the average
\* loss only amounts < 0.
C4_WinRate ==
    SummaryShown =>
        LET t == Trades(The(df))
        IN /\ \A k \in 1..Len(daily) :
                 WinRateRow(t, daily[k], OnDay(t, daily[k].hizuke))
           /\ \A k \in 1..Len(monthly) :
                 WinRateRow(t, monthly[k], InMonth(t, monthly[k].nengetsu))

\* C4's case: a day with a win, a trade of amount zero and so a rate strictly
\* between 0 and 100.
C4_Witness ==
    /\ SummaryShown
    /\ LET t == Trades(The(df))
       IN \E k \in 1..Len(daily) :
             /\ \E i \in OnDay(t, daily[k].hizuke) : HasAmount(t, i) /\ Yen(t, i) = 0
             /\ daily[k].kachi_su >= 1
             /\ daily[k].kachi_su < daily[k].so_torihiki_su

\* The three trades of the worked example, in any order.
IsExample(d) ==
    /\ Len(d.rows) = 3
    /\ {d.rows[i] : i \in 1..3} =
          {<<DATE_0101, LABEL_SHINYO, YEN_1000>>,
           <<DATE_0101, LABEL_SHINYO, YEN_M400>>,
           <<DATE_0102, LABEL_SHINYO, YEN_300>>}

\* C5: the daily table has one row per calendar date of the margin trades, in
\* ascending order, each made of exactly the trades of that date; for the trades
\* 2025-01-01 +1000, 2025-01-01 -400, 2025-01-02 +300 it has two rows: total 600,
\* 1 win, 1 loss of 2 trades, rate 50, then total 300, rate 100.
C5_DailyGrouping ==
    SummaryShown =>
        LET t == Trades(The(df)) IN
        /\ {daily[k].hizuke : k \in 1..Len(daily)} =
              {t[i].day : i \in {j \in MarginRows(t) : HasDay(t, j)}}
        /\ \A k \in 1..(Len(daily) - 1) : KeyLess(daily[k].hizuke, daily[k + 1].hizuke)
        /\ \A k \in 1..Len(daily) :
              /\ daily[k].so_torihiki_su = Cardinality(OnDay(t, daily[k].hizuke))
              /\ Num(daily[k].so_soneki) = YenTotal(t, OnDay(t, daily[k].hizuke))
        /\ IsExample(The(df)) =>
              /\ Len(daily) = 2
              /\ daily[1].hizuke = <<2025, 1, 1>>
              /\ daily[1].so_soneki = <<600, 1>>
              /\ daily[1].kachi_su = 1
              /\ daily[1].so_torihiki_su = 2
              /\ daily[1].heikin_sonshitsu = <<0 - 400, 1>>
              /\ daily[1].shoritsu = <<50, 1>>
              /\ daily[2].hizuke = <<2025, 1, 2>>
              /\ daily[2].so_soneki = <<300, 1>>
              /\ daily[2].shoritsu = <<100, 1>>

\* C5's case: the report of the worked example.
C5_Witness == SummaryShown /\ IsExample(The(df))

\* C6: the report is the report of the table without the rows whose label lacks
\* 信用 (現物, a missing label, any other text): such a row adds to no daily row,
\* no monthly row, neither ratio and no point of the cumulative series.
C6_OnlyMarginRows ==
    SummaryShown =>
        LET t == Trades(The(df))
            r == show_summary(Without(The(df), (1..Len(t)) \ MarginRows(t)))
        IN /\ daily = r.daily
           /\ monthly = r.monthly
           /\ metrics = r.metrics
           /\ \A k \in 1..Len(daily) :
                 daily[k].so_torihiki_su = Cardinality(OnDay(t, daily[k].hizuke))

\* C6's case: a report over a table with a 現物 row, a row without a label and a
\* margin row.
C6_Witness ==
    /\ SummaryShown
    /\ LET t == Trades(The(df))
       IN /\ MarginRows(t) # {}
          /\ \E i \in 1..Len(t) : t[i].label = LABEL_GENBUTSU
          /\ \E i \in 1..Len(t) : t[i].label = NaN /\ HasDay(t, i) /\ HasAmount(t, i)

\* The run is past ingestion: read_csv, show_summary or the raw table was reached.
PastIngestion ==
    \/ pc \in {"read_csv", "show_summary", "csv_data", "KeyError"}
    \/ df # None
    \/ \E i \in 1..Len(shown) : shown[i] # "error"

\* The run of an upload has ended.
RunEnded == uploaded_file # None /\ pc \in {"stopped", "done", "KeyError"}

\* C7: an upload that decodes under none of utf-8, cp932, shift_jis, or whose
\* decoded lines hold no 約定日, ends on an error with nothing else rendered and no
\* table parsed; and the run gets past ingestion only with no error shown, the
\* lines decoded and a header line found.
C7_ErrorsHalt ==
    /\ st_error # "" =>
          /\ pc = "stopped"
          /\ shown = <<"error">>
          /\ df = None /\ daily = <<>> /\ monthly = <<>> /\ metrics = NoReport
    /\ st_error = "encoding" => The(uploaded_file).valid = {} /\ lines = None
    /\ st_error = "header" =>
          \A i \in 1..Len(The(lines)) : ~LineContains(The(lines)[i], MARKER)
    /\ PastIngestion =>
          /\ st_error = ""
          /\ lines # None
          /\ header_row_index # None
          /\ The(uploaded_file).valid # {}
          /\ \E i \in 1..Len(The(lines)) : LineContains(The(lines)[i], MARKER)
    /\ RunEnded =>
          /\ The(uploaded_file).valid = {} => st_error = "encoding"
          /\ (/\ lines # None
              /\ \A i \in 1..Len(The(lines)) : ~LineContains(The(lines)[i], MARKER))
                => st_error = "header"

\* C7's case: a run stopped on the header error, over lines that cp932 decoded
\* after utf-8 had failed.
C7_Witness ==
    /\ pc = "stopped"
    /\ st_error = "header"
    /\ enc_idx = 2
    /\ Len(The(lines)) >= 2

\* C8: the header index is the lowest index of a line holding 約定日; that line
\* gives the column names and each line after it is one data row, in order, the
\* lines before it being dropped.
C8_FirstMarkerLine ==
    /\ header_row_index # None =>
          LET h == The(header_row_index)
              ls == The(lines)
          IN /\ h \in 0..(Len(ls) - 1)
             /\ LineContains(ls[h + 1], MARKER)
             /\ \A j \in 1..h : ~LineContains(ls[j], MARKER)
    /\ df # None =>
          LET h == The(header_row_index)
              ls == The(lines)
              d == The(df)
          IN /\ d.columns = ls[h + 1]
             /\ Len(d.rows) = Len(ls) - h - 1
             /\ \A i \in 1..Len(d.rows) : d.rows[i] = ls[h + 1 + i]

\* C8's case: a table parsed from a file with a line before the header and a
\* later line that holds the marker too.
C8_Witness ==
    /\ df # None
    /\ The(header_row_index) >= 1
    /\ \E j \in (The(header_row_index) + 2)..Len(The(lines)) :
          LineContains(The(lines)[j], MARKER)

\* The cumulative column is the running sum of 総損益 down the daily table, whose
\* dates ascend, and moves with the sign of each day's total.
RunningSum ==
    /\ \A k \in 1..(Len(daily) - 1) : KeyLess(daily[k].hizuke, daily[k + 1].hizuke)
    /\ Len(daily) >= 1 => daily[1].ruiseki_soneki = daily[1].so_soneki
    /\ \A k \in 2..Len(daily) :
          /\ daily[k].ruiseki_soneki =
                RatAdd(daily[k - 1].ruiseki_soneki, daily[k].so_soneki)
          /\ Num(daily[k].so_soneki) >= 0 =>
                ~RatLess(daily[k].ruiseki_soneki, daily[k - 1].ruiseki_soneki)
          /\ Num(daily[k].so_soneki) < 0 =>
                ~RatLess(daily[k - 1].ruiseki_soneki, daily[k].ruiseki_soneki)

\* C9 as claimed: the cumulative series is the running sum of the daily totals in
\* ascending date order, does not decrease over a day of total >= 0 nor increase
\* over a day of total < 0, and ends on the total of the margin rows that have an
\* amount.
C9_EndsOnDatasetTotal ==
    SummaryShown =>
        LET t == Trades(The(df))
        IN /\ RunningSum
           /\ Len(daily) >= 1 =>
                 Num(daily[Len(daily)].ruiseki_soneki) =
                    YenTotal(t, {i \in MarginRows(t) : HasAmount(t, i)})

\* C9 as the program has it: the same series ends on the total of the margin rows
\* that have an amount and a date that parses.
C9_EndsOnDatedTotal ==
    SummaryShown =>
        LET t == Trades(The(df))
        IN /\ RunningSum
           /\ Len(daily) >= 1 =>
                 Num(daily[Len(daily)].ruiseki_soneki) =
                    YenTotal(t, {i \in MarginRows(t) : HasAmount(t, i) /\ HasDay(t, i)})

\* C9's case: a series that goes up and then down, over a table that also has an
\* amount on a row whose date does not parse.
C9_Witness ==
    /\ SummaryShown
    /\ Len(daily) = 2
    /\ Num(daily[1].so_soneki) > 0
    /\ Num(daily[2].so_soneki) < 0
    /\ LET t == Trades(The(df))
       IN \E i \in MarginRows(t) : HasAmount(t, i) /\ ~HasDay(t, i)

\* C10: with at least one losing margin trade the profit factor reads the two
\* decimals of sum(wins) / |sum(losses)| (0.00 without a winning trade) and, given
\* a winning trade, the payoff ratio those of mean(wins) / |mean(losses)|; neither
\* reads 計算不可.
C10_RatiosShownWithLoser ==
    SummaryShown =>
        LET t == Trades(The(df))
            W == Winners(t)
            L == Losers(t)
        IN L # {} =>
              /\ metrics.profit_factor =
                    Format2f(Rat(YenTotal(t, W), Abs(YenTotal(t, L))))
              /\ W # {} =>
                    metrics.payoff_ratio =
                       Format2f(RatDiv(YenMean(t, W), RatAbs(YenMean(t, L))))
              /\ metrics.profit_factor # KEISAN_FUKA
              /\ metrics.payoff_ratio # KEISAN_FUKA

\* The part of C10 the program keeps: with a losing and a winning margin trade both
\* ratios read the two decimals of their quotient.
Aux_RatiosWithWinnerAndLoser ==
    SummaryShown =>
        LET t == Trades(The(df))
            W == Winners(t)
            L == Losers(t)
        IN (L # {} /\ W # {}) =>
              /\ metrics.profit_factor =
                    Format2f(Rat(YenTotal(t, W), Abs(YenTotal(t, L))))
              /\ metrics.payoff_ratio =
                    Format2f(RatDiv(YenMean(t, W), RatAbs(YenMean(t, L))))

====
